---- MODULE Spec2Model ----
(***************************************************************************)
(* Dashboard view (App component), its API client and the Lorenz-curve     *)
(* derivation.                                                             *)
(*                                                                         *)
(*   Spec         the view's lifecycle: mount effect, WebSocket events,    *)
(*                polling timer, clock, upload / add-transaction forms.    *)
(*   SpecRefresh  the refresh cycle: refreshAll's nine requests and their  *)
(*                responses, one request at a time.                        *)
(*   SpecOverlap  the same with two refresh cycles in flight at once.      *)
(*   SpecLorenz   lorenzData over bounded histograms.                      *)
(***************************************************************************)
EXTENDS Integers, Sequences, FiniteSets, TLC

VARIABLES
    view,            \* lifecycle of the App instance: "init" | "mounted" | "unmounted"
    ws,              \* the effect's `ws`: "none" | "connecting" | "open" | "closing" | "failed" | "closed"
    pollRef,         \* pollRef.current: 0 is null, otherwise an interval id
    timers,          \* armed intervals: [id, since], since = time of arming or of the last firing
    timersCreated,   \* number of setInterval calls so far
    now,             \* clock, ms
    file,            \* useState file: NoFile or a selected file
    newTx,           \* useState newTx: the transaction draft
    uploads,         \* POST /ingest/csv requests awaiting their response
    addTxs,          \* POST /transactions requests awaiting their response
    refreshes,       \* refresh cycles in start order: [pending, status]
    datasets,        \* the nine useState datasets: request -> cycle that wrote it (0 initial)
    amountHistogram, \* content of the amountHistogram state
    lorenzData,      \* the useMemo value derived from amountHistogram
    limits,          \* scenario limits on refresh cycles: [total, inflight]
    lastOp           \* the handler or callback that ran last

vars == <<view, ws, pollRef, timers, timersCreated, now, file, newTx, uploads,
          addTxs, refreshes, datasets, amountHistogram, lorenzData, limits, lastOp>>

viewVars   == <<view, ws, pollRef, timers, timersCreated, now>>
formVars   == <<file, newTx, uploads, addTxs>>
lorenzVars == <<amountHistogram, lorenzData>>

----------------------------------------------------------------------------
(* Bounds *)

MaxRefresh  == 3    \* refresh cycles started in one run of Spec
MaxCycles   == 2    \* refresh cycles started in one run of SpecRefresh
MaxInFlight == 1    \* refresh cycles awaiting responses at once in SpecRefresh
MaxWrites   == 1    \* write requests of one kind awaiting their response
MaxTime     == 10000 \* the clock stops here, ms
MaxLen      == 3    \* buckets in a histogram
MaxCount    == 2    \* largest bucket count drawn

----------------------------------------------------------------------------
(* Lorenz-curve derivation                                                 *)

\* JS numbers that a division of two integers can yield: a reduced fraction
\* <<n, d>> with d > 0, or one of the non-finite values.
NaN    == <<0, 0>>
PosInf == <<1, 0>>
NegInf == <<-1, 0>>

Abs(x) == IF x < 0 THEN -x ELSE x

RECURSIVE GCD(_, _)
GCD(a, b) == IF b = 0 THEN a ELSE GCD(b, a % b)

\* n / d of the source (line 122), by value: 0/0 is NaN, x/0 is +-Infinity.
Div(n, d) ==
    IF d = 0
    THEN (IF n = 0 THEN NaN ELSE IF n > 0 THEN PosInf ELSE NegInf)
    ELSE LET g == GCD(Abs(n), Abs(d))
             s == IF d < 0 THEN -1 ELSE 1
         IN  <<(s * n) \div g, (s * d) \div g>>

\* d.count || 0
CountOf(d) == IF "count" \in DOMAIN d THEN d.count ELSE 0

\* [...amountHistogram].sort((a, b) => a.mid - b.mid): Array.prototype.sort is
\* stable, so buckets of equal mid keep their input order.
RECURSIVE SortByMid(_)
SortByMid(h) ==
    IF h = <<>> THEN <<>>
    ELSE LET rest == SortByMid(SubSeq(h, 1, Len(h) - 1))
             d    == h[Len(h)]
             \* d goes after every bucket whose mid is <= d.mid
             k    == Cardinality({i \in 1..Len(rest) : rest[i].mid <= d.mid})
         IN  SubSeq(rest, 1, k) \o <<d>> \o SubSeq(rest, k + 1, Len(rest))

RECURSIVE SumCount(_)
SumCount(s) == IF s = <<>> THEN 0 ELSE CountOf(Head(s)) + SumCount(Tail(s))

RECURSIVE SumAmount(_)
SumAmount(s) ==
    IF s = <<>> THEN 0 ELSE Head(s).mid * CountOf(Head(s)) + SumAmount(Tail(s))

TotalCount(h)  == SumCount(SortByMid(h))
TotalAmount(h) == SumAmount(SortByMid(h))

Anchor0 == [p |-> Div(0, 1), L |-> Div(0, 1)]
Anchor1 == [p |-> Div(1, 1), L |-> Div(1, 1)]

\* mutant: the running amount adds d.mid instead of d.mid * c
LorenzMidOnly(h) ==
    IF Len(h) = 0 THEN <<>>
    ELSE LET sorted == SortByMid(h)
             RECURSIVE SumMid(_)
             SumMid(s) == IF s = <<>> THEN 0 ELSE Head(s).mid + SumMid(Tail(s))
             pts == [i \in 1..Len(sorted) |->
                       [p |-> Div(SumCount(SubSeq(sorted, 1, i)), SumCount(sorted)),
                        L |-> Div(SumMid(SubSeq(sorted, 1, i)), SumAmount(sorted))]]
         IN  <<Anchor0>> \o pts \o <<Anchor1>>

\* mutant: each point carries its own bucket's share, nothing is accumulated
LorenzNoCum(h) ==
    IF Len(h) = 0 THEN <<>>
    ELSE LET sorted == SortByMid(h)
             pts == [i \in 1..Len(sorted) |->
                       [p |-> Div(CountOf(sorted[i]), SumCount(sorted)),
                        L |-> Div(sorted[i].mid * CountOf(sorted[i]), SumAmount(sorted))]]
         IN  <<Anchor0>> \o pts \o <<Anchor1>>

\* mutant: the histogram is walked in input order, without the sort
LorenzNoSort(h) ==
    IF Len(h) = 0 THEN <<>>
    ELSE LET pts == [i \in 1..Len(h) |->
                       [p |-> Div(SumCount(SubSeq(h, 1, i)), SumCount(h)),
                        L |-> Div(SumAmount(SubSeq(h, 1, i)), SumAmount(h))]]
         IN  <<Anchor0>> \o pts \o <<Anchor1>>

\* mutant: no early return for the empty histogram
LorenzNoGuard(h) ==
    LET sorted == SortByMid(h)
        pts == [i \in 1..Len(sorted) |->
                  [p |-> Div(SumCount(SubSeq(sorted, 1, i)), SumCount(sorted)),
                   L |-> Div(SumAmount(SubSeq(sorted, 1, i)), SumAmount(sorted))]]
    IN  <<Anchor0>> \o pts \o <<Anchor1>>

\* The useMemo body: empty for an empty histogram, otherwise the anchors
\* around one point per sorted bucket, cumCount / totalCount and
\* cumAmount / totalAmount.
LorenzOf(h) ==
    IF Len(h) = 0 THEN <<>>
    ELSE LET sorted == SortByMid(h)
             totalCount  == SumCount(sorted)
             totalAmount == SumAmount(sorted)
             pts == [i \in 1..Len(sorted) |->
                       [p |-> Div(SumCount(SubSeq(sorted, 1, i)), totalCount),
                        L |-> Div(SumAmount(SubSeq(sorted, 1, i)), totalAmount)]]
         IN  <<Anchor0>> \o pts \o <<Anchor1>>

----------------------------------------------------------------------------
(* Dashboard view                                                          *)

POLL_MS == 5000

NoFile == "null"
Files  == {"a.csv"}
Drafts == {"blank", "filled"}

\* The nine requests of refreshAll's Promise.all, by the state each one feeds.
Requests == {"summary", "categorySpend", "fraudTrend", "table", "amountByGender",
             "fraudByCategory", "avgAmountByCategory", "topMerchants",
             "amountHistogram"}

Pending == {c \in 1..Len(refreshes) : refreshes[c].status = "pending"}

\* Scenario limit: another refresh cycle may be started.
CanRefresh ==
    /\ Len(refreshes) < limits.total
    /\ Cardinality(Pending) < limits.inflight

\* refreshAll up to its await: the nine requests are issued together.
RefreshAllCalled ==
    refreshes' = Append(refreshes, [pending |-> Requests, status |-> "pending"])

Arm(ms) ==
    /\ pollRef' = timersCreated + 1
    /\ timers' = timers \cup {[id |-> timersCreated + 1, since |-> now, every |-> ms]}
    /\ timersCreated' = timersCreated + 1

\* mutant: no guard against arming twice
StartPollingNoGuard ==
    Arm(POLL_MS)

\* startPolling: return when pollRef.current is set, else setInterval(refreshAll, 5000)
startPolling ==
    IF pollRef # 0
    THEN UNCHANGED <<pollRef, timers, timersCreated>>
    ELSE Arm(POLL_MS)

\* mutant: startPolling() runs after the try block, whether or not the
\* constructor threw
MountPollAlways ==
    /\ view = "init"
    /\ CanRefresh
    /\ view' = "mounted"
    /\ RefreshAllCalled
    /\ \E thrown \in BOOLEAN :
          /\ ws' = IF thrown THEN "none" ELSE "connecting"
          /\ lastOp' = IF thrown THEN "mount:throw" ELSE "mount"
    /\ startPolling
    /\ UNCHANGED <<now, datasets, limits>>
    /\ UNCHANGED formVars
    /\ UNCHANGED lorenzVars

\* The mount effect: refreshAll(), then new WebSocket(wsUrl) with its three
\* handlers, or startPolling() when the constructor throws.
Mount ==
    /\ view = "init"
    /\ CanRefresh
    /\ view' = "mounted"
    /\ RefreshAllCalled
    /\ \E thrown \in BOOLEAN :
          IF thrown
          THEN /\ ws' = "none"
               /\ startPolling
               /\ lastOp' = "mount:throw"
          ELSE /\ ws' = "connecting"
               /\ UNCHANGED <<pollRef, timers, timersCreated>>
               /\ lastOp' = "mount"
    /\ UNCHANGED <<now, datasets, limits>>
    /\ UNCHANGED formVars
    /\ UNCHANGED lorenzVars

\* The connection is established; the view sets no onopen handler.
WsOpen ==
    /\ ws = "connecting"
    /\ ws' = "open"
    /\ lastOp' = "ws.open"
    /\ UNCHANGED <<view, pollRef, timers, timersCreated, now, refreshes, datasets, limits>>
    /\ UNCHANGED formVars
    /\ UNCHANGED lorenzVars

\* ws.onmessage = () => refreshAll(). Messages are delivered only while OPEN.
WsMessage ==
    /\ ws = "open"
    /\ CanRefresh
    /\ RefreshAllCalled
    /\ lastOp' = "ws.onmessage"
    /\ UNCHANGED <<view, ws, pollRef, timers, timersCreated, now, datasets, limits>>
    /\ UNCHANGED formVars
    /\ UNCHANGED lorenzVars

\* ws.onerror = () => startPolling(). The connection failed: readyState is
\* CLOSED and the close event is still to come.
WsError ==
    /\ ws \in {"connecting", "open", "closing"}
    /\ ws' = "failed"
    /\ startPolling
    /\ lastOp' = "ws.onerror"
    /\ UNCHANGED <<view, now, refreshes, datasets, limits>>
    /\ UNCHANGED formVars
    /\ UNCHANGED lorenzVars

\* ws.onclose = () => startPolling(). The close event of a connection closed
\* by the server, by a failure or by the cleanup's ws.close().
WsClose ==
    /\ ws \in {"open", "closing", "failed"}
    /\ ws' = "closed"
    /\ startPolling
    /\ lastOp' = "ws.onclose"
    /\ UNCHANGED <<view, now, refreshes, datasets, limits>>
    /\ UNCHANGED formVars
    /\ UNCHANGED lorenzVars

\* The effect's cleanup: if (ws) ws.close(); if (pollRef.current) clearInterval(...)
\* ws.close() starts the closing handshake; the close event comes later.
\* pollRef.current keeps its value.
Unmount ==
    /\ view = "mounted"
    /\ view' = "unmounted"
    /\ ws' = IF ws \in {"connecting", "open"} THEN "closing" ELSE ws
    /\ timers' = IF pollRef # 0 THEN {t \in timers : t.id # pollRef} ELSE timers
    /\ lastOp' = "cleanup"
    /\ UNCHANGED <<pollRef, timersCreated, now, refreshes, datasets, limits>>
    /\ UNCHANGED formVars
    /\ UNCHANGED lorenzVars

\* An armed interval fires: refreshAll().
PollTick ==
    /\ CanRefresh
    /\ \E t \in timers :
          /\ now = t.since + t.every
          /\ timers' = (timers \ {t}) \cup {[t EXCEPT !.since = now]}
    /\ RefreshAllCalled
    /\ lastOp' = "interval"
    /\ UNCHANGED <<view, ws, pollRef, timersCreated, now, datasets, limits>>
    /\ UNCHANGED formVars
    /\ UNCHANGED lorenzVars

\* Time passes, never beyond the next firing of an armed interval.
Advance ==
    /\ \E d \in {POLL_MS \div 2, POLL_MS} :
          /\ now + d <= MaxTime
          /\ \A t \in timers : now + d <= t.since + t.every
          /\ now' = now + d
    /\ lastOp' = "time"
    /\ UNCHANGED <<view, ws, pollRef, timers, timersCreated, refreshes, datasets, limits>>
    /\ UNCHANGED formVars
    /\ UNCHANGED lorenzVars

----------------------------------------------------------------------------
(* Forms                                                                   *)

RemoveAt(q, i) == SubSeq(q, 1, i - 1) \o SubSeq(q, i + 1, Len(q))

\* <input type="file" onChange>: setFile(e.target.files?.[0] || null)
SelectFile ==
    /\ view = "mounted"
    /\ \E f \in Files \cup {NoFile} : file' = f
    /\ lastOp' = "setFile"
    /\ UNCHANGED <<newTx, uploads, addTxs, refreshes, datasets, limits>>
    /\ UNCHANGED viewVars
    /\ UNCHANGED lorenzVars

\* The draft's onChange handlers: setNewTx({...newTx, field})
EditTx ==
    /\ view = "mounted"
    /\ \E d \in Drafts : newTx' = d
    /\ lastOp' = "setNewTx"
    /\ UNCHANGED <<file, uploads, addTxs, refreshes, datasets, limits>>
    /\ UNCHANGED viewVars
    /\ UNCHANGED lorenzVars

\* mutant: no check of the selected file before the request
OnUploadNoCheck ==
    /\ view = "mounted"
    /\ Len(uploads) < MaxWrites
    /\ uploads' = Append(uploads, file)
    /\ lastOp' = "onUpload:request"
    /\ UNCHANGED <<file, newTx, addTxs, refreshes, datasets, limits>>
    /\ UNCHANGED viewVars
    /\ UNCHANGED lorenzVars

\* onUpload up to its first await: return when no file is selected, else
\* uploadCSV(file) posts the file to /ingest/csv. The handler as invoked; the
\* Upload button is disabled while no file is selected.
OnUpload ==
    /\ view = "mounted"
    /\ IF file = NoFile
       THEN /\ lastOp' = "onUpload:return"
            /\ UNCHANGED uploads
       ELSE /\ Len(uploads) < MaxWrites
            /\ uploads' = Append(uploads, file)
            /\ lastOp' = "onUpload:request"
    /\ UNCHANGED <<file, newTx, addTxs, refreshes, datasets, limits>>
    /\ UNCHANGED viewVars
    /\ UNCHANGED lorenzVars

\* mutant: the selected file is dropped and the refresh started whatever the
\* outcome of the upload
UploadFailThenRefresh ==
    /\ uploads # <<>>
    /\ CanRefresh
    /\ \E i \in 1..Len(uploads) : uploads' = RemoveAt(uploads, i)
    /\ file' = IF view = "mounted" THEN NoFile ELSE file
    /\ RefreshAllCalled
    /\ lastOp' = "onUpload:rejected"
    /\ UNCHANGED <<newTx, addTxs, datasets, limits>>
    /\ UNCHANGED viewVars
    /\ UNCHANGED lorenzVars

\* onUpload after `await uploadCSV(file)` resolved: setFile(null), then
\* refreshAll(). A state update of an unmounted component is dropped.
UploadOk ==
    /\ uploads # <<>>
    /\ CanRefresh
    /\ \E i \in 1..Len(uploads) : uploads' = RemoveAt(uploads, i)
    /\ file' = IF view = "mounted" THEN NoFile ELSE file
    /\ RefreshAllCalled
    /\ lastOp' = "onUpload:resolved"
    /\ UNCHANGED <<newTx, addTxs, datasets, limits>>
    /\ UNCHANGED viewVars
    /\ UNCHANGED lorenzVars

\* `await uploadCSV(file)` rejected: onUpload ends there, nothing catches it.
UploadFail ==
    /\ uploads # <<>>
    /\ \E i \in 1..Len(uploads) : uploads' = RemoveAt(uploads, i)
    /\ lastOp' = "onUpload:rejected"
    /\ UNCHANGED <<file, newTx, addTxs, refreshes, datasets, limits>>
    /\ UNCHANGED viewVars
    /\ UNCHANGED lorenzVars

\* onAddTx up to its await: addTransaction(payload) posts the draft.
OnAddTx ==
    /\ view = "mounted"
    /\ Len(addTxs) < MaxWrites
    /\ addTxs' = Append(addTxs, newTx)
    /\ lastOp' = "onAddTx:request"
    /\ UNCHANGED <<file, newTx, uploads, refreshes, datasets, limits>>
    /\ UNCHANGED viewVars
    /\ UNCHANGED lorenzVars

\* onAddTx after `await addTransaction(payload)` resolved: refreshAll().
AddTxOk ==
    /\ addTxs # <<>>
    /\ CanRefresh
    /\ \E i \in 1..Len(addTxs) : addTxs' = RemoveAt(addTxs, i)
    /\ RefreshAllCalled
    /\ lastOp' = "onAddTx:resolved"
    /\ UNCHANGED <<file, newTx, uploads, datasets, limits>>
    /\ UNCHANGED viewVars
    /\ UNCHANGED lorenzVars

\* `await addTransaction(payload)` rejected: onAddTx ends there.
AddTxFail ==
    /\ addTxs # <<>>
    /\ \E i \in 1..Len(addTxs) : addTxs' = RemoveAt(addTxs, i)
    /\ lastOp' = "onAddTx:rejected"
    /\ UNCHANGED <<file, newTx, uploads, refreshes, datasets, limits>>
    /\ UNCHANGED viewVars
    /\ UNCHANGED lorenzVars

----------------------------------------------------------------------------
(* Refresh cycle                                                           *)

\* mutant: each dataset is set as soon as its own request resolves
RequestOkEach ==
    \E c \in Pending : \E r \in refreshes[c].pending :
       LET left == refreshes[c].pending \ {r} IN
       /\ refreshes' = [refreshes EXCEPT ![c] =
                          [pending |-> left,
                           status  |-> IF left = {} THEN "done" ELSE "pending"]]
       /\ datasets' = IF view = "mounted" THEN [datasets EXCEPT ![r] = c] ELSE datasets
       /\ lastOp' = IF left = {} THEN "refreshAll:resolved" ELSE "response"
       /\ UNCHANGED limits
       /\ UNCHANGED viewVars
       /\ UNCHANGED formVars
       /\ UNCHANGED lorenzVars

\* mutant: the continuation leaves out setAmountHistogram(hist)
RequestOkEightSetters ==
    \E c \in Pending : \E r \in refreshes[c].pending :
       LET left == refreshes[c].pending \ {r} IN
       /\ refreshes' = [refreshes EXCEPT ![c] =
                          [pending |-> left,
                           status  |-> IF left = {} THEN "done" ELSE "pending"]]
       /\ datasets' = IF left = {} /\ view = "mounted"
                      THEN [d \in Requests |->
                              IF d = "amountHistogram" THEN datasets[d] ELSE c]
                      ELSE datasets
       /\ lastOp' = IF left = {} THEN "refreshAll:resolved" ELSE "response"
       /\ UNCHANGED limits
       /\ UNCHANGED viewVars
       /\ UNCHANGED formVars
       /\ UNCHANGED lorenzVars

\* One of a cycle's nine requests resolves. Promise.all resolves with the last
\* of them, and refreshAll's continuation then calls the nine setters in one
\* go; a state update of an unmounted component is dropped.
RequestOk ==
    \E c \in Pending : \E r \in refreshes[c].pending :
       LET left == refreshes[c].pending \ {r} IN
       /\ refreshes' = [refreshes EXCEPT ![c] =
                          [pending |-> left,
                           status  |-> IF left = {} THEN "done" ELSE "pending"]]
       /\ datasets' = IF left = {} /\ view = "mounted"
                      THEN [d \in Requests |-> c]
                      ELSE datasets
       /\ lastOp' = IF left = {} THEN "refreshAll:resolved" ELSE "response"
       /\ UNCHANGED limits
       /\ UNCHANGED viewVars
       /\ UNCHANGED formVars
       /\ UNCHANGED lorenzVars

\* One of a cycle's requests rejects: Promise.all rejects at once, refreshAll
\* throws at its await and sets nothing; the cycle's later responses go nowhere.
RequestFail ==
    \E c \in Pending :
       /\ refreshes[c].pending # {}
       /\ refreshes' = [refreshes EXCEPT ![c] = [pending |-> {}, status |-> "failed"]]
       /\ lastOp' = "refreshAll:rejected"
       /\ UNCHANGED <<datasets, limits>>
       /\ UNCHANGED viewVars
       /\ UNCHANGED formVars
       /\ UNCHANGED lorenzVars

----------------------------------------------------------------------------
(* Histograms                                                              *)

\* Bucket midpoints drawn: a negative one, zero and a positive one.
Mids   == {-1, 0, 1}
Counts == 0 .. MaxCount

\* A bucket as the API returns it; count may be missing.
Buckets == [mid : Mids, count : Counts] \cup [mid : Mids]

\* The histogram of the worked example.
ScenarioHist == <<[mid |-> 10, count |-> 2], [mid |-> 30, count |-> 2]>>

Swap(h, i, j) == [h EXCEPT ![i] = h[j], ![j] = h[i]]

\* The first histogram arrives: refreshAll's setAmountHistogram(hist), and the
\* render recomputes lorenzData.
HistogramLoaded ==
    /\ amountHistogram = <<>>
    /\ \E h \in UNION {[1..n -> Buckets] : n \in 0..MaxLen} \cup {ScenarioHist} :
          amountHistogram' = h
    /\ lorenzData' = LorenzOf(amountHistogram')
    /\ lastOp' = "setAmountHistogram"
    /\ UNCHANGED <<refreshes, datasets, limits>>
    /\ UNCHANGED viewVars
    /\ UNCHANGED formVars

\* The server returns the same buckets in another order: setAmountHistogram,
\* and the render recomputes lorenzData.
Reorder ==
    /\ \E i, j \in 1..Len(amountHistogram) :
          /\ i < j
          /\ amountHistogram' = Swap(amountHistogram, i, j)
    /\ amountHistogram' # amountHistogram
    /\ lorenzData' = LorenzOf(amountHistogram')
    /\ lastOp' = "reorder"
    /\ UNCHANGED <<refreshes, datasets, limits>>
    /\ UNCHANGED viewVars
    /\ UNCHANGED formVars

----------------------------------------------------------------------------
(* Specifications                                                          *)

InitView ==
    /\ view = "init"
    /\ ws = "none"
    /\ pollRef = 0
    /\ timers = {}
    /\ timersCreated = 0
    /\ now = 0
    /\ file = NoFile
    /\ newTx = "blank"
    /\ uploads = <<>>
    /\ addTxs = <<>>
    /\ refreshes = <<>>
    /\ datasets = [d \in Requests |-> 0]
    /\ lastOp = "construct"

Init ==
    /\ InitView
    /\ amountHistogram = <<>>
    /\ lorenzData = LorenzOf(amountHistogram)
    /\ limits = [total |-> MaxRefresh, inflight |-> MaxRefresh]

Next ==
    \/ Mount
    \/ WsOpen
    \/ WsMessage
    \/ WsError
    \/ WsClose
    \/ Unmount
    \/ PollTick
    \/ Advance
    \/ SelectFile
    \/ EditTx
    \/ OnUpload
    \/ UploadOk
    \/ UploadFail
    \/ OnAddTx
    \/ AddTxOk
    \/ AddTxFail

Spec == Init /\ [][Next]_vars

InitRefresh ==
    /\ InitView
    /\ amountHistogram = <<>>
    /\ lorenzData = LorenzOf(amountHistogram)
    /\ limits = [total |-> MaxCycles, inflight |-> MaxInFlight]

NextRefresh ==
    \/ Mount
    \/ WsOpen
    \/ WsMessage
    \/ RequestOk
    \/ RequestFail

SpecRefresh == InitRefresh /\ [][NextRefresh]_vars

\* Overlapping cycles: as SpecRefresh, with two cycles awaiting their
\* responses at once (a push message arrives while a refresh is in flight).
InitOverlap ==
    /\ InitView
    /\ amountHistogram = <<>>
    /\ lorenzData = LorenzOf(amountHistogram)
    /\ limits = [total |-> MaxCycles, inflight |-> 2]

SpecOverlap == InitOverlap /\ [][NextRefresh]_vars

InitLorenz ==
    /\ InitView
    /\ amountHistogram = <<>>
    /\ lorenzData = LorenzOf(amountHistogram)
    /\ limits = [total |-> 0, inflight |-> 0]

NextLorenz ==
    \/ HistogramLoaded
    \/ Reorder

SpecLorenz == InitLorenz /\ [][NextLorenz]_vars

----------------------------------------------------------------------------
(* Claims                                                                  *)

Released == timers = {} /\ ws \in {"none", "closing", "failed", "closed"}

\* C1: once the unmount cleanup has run, in every later state the push
\* connection is closed (or closing) and no polling interval is armed,
\* whatever events of the socket arrive afterwards.
C1_ReleasedAfterUnmount ==
    view = "unmounted" => Released

PushFailed ==
    \/ ws \in {"failed", "closed"}
    \/ view # "init" /\ ws = "none"

\* C2: startPolling creates exactly one interval per mount: at most one
\* setInterval call ever, exactly one once an error event, a close event or a
\* throwing constructor has been handled; the interval is the one pollRef
\* names, it calls refreshAll 5000 ms after its arming or its last firing, and
\* the unmount cleanup leaves no interval armed.
C2_PollingArmedOnce ==
    /\ [](timersCreated <= 1)
    /\ [](PushFailed => timersCreated = 1)
    /\ [](\A t \in timers : t.id = pollRef /\ t.every = POLL_MS /\ now <= t.since + POLL_MS)
    /\ [][lastOp' = "interval" =>
            /\ \E t \in timers : now = t.since + POLL_MS
            /\ Len(refreshes') = Len(refreshes) + 1]_vars
    /\ [][lastOp' = "cleanup" => timers' = {}]_vars

\* C2 witness: error and close were both delivered to a mounted view, one
\* interval exists and has just fired.
C2_Witness ==
    /\ view = "mounted"
    /\ ws = "closed"
    /\ lastOp = "interval"
    /\ timersCreated = 1
    /\ Cardinality(timers) = 1

\* C3: no dataset ever holds data of a refresh cycle that has not resolved
\* all nine of its requests: the nine are written only once all nine have
\* resolved, and a cycle one of whose requests failed writes none of them.
C3_AllOrNothing ==
    \A d \in Requests :
       datasets[d] # 0 => refreshes[datasets[d]].status = "done"

\* C3 witness: the first cycle resolved and wrote the nine datasets, the
\* second failed and they are still the first cycle's.
C3_Witness ==
    /\ Len(refreshes) = 2
    /\ refreshes[1].status = "done"
    /\ refreshes[2].status = "failed"
    /\ lastOp = "refreshAll:rejected"
    /\ \A d \in Requests : datasets[d] = 1

Leq(a, b) == a[1] * b[2] <= b[1] * a[2]

NonDecreasing(c) ==
    \A i \in 1..(Len(c) - 1) : Leq(c[i].p, c[i + 1].p) /\ Leq(c[i].L, c[i + 1].L)

PositiveTotals(h) == Len(h) > 0 /\ TotalCount(h) > 0 /\ TotalAmount(h) > 0

WellFormedCurve(h, c) ==
    /\ Len(c) = Len(h) + 2
    /\ c[1] = Anchor0
    /\ c[Len(c)] = Anchor1
    /\ NonDecreasing(c)

\* C4 as stated: for every non-empty histogram with positive total count and
\* total amount, midpoints of either sign, the curve has length + 2 points,
\* starts at (0,0), ends at (1,1) and is non-decreasing in p and in L.
C4_Original ==
    PositiveTotals(amountHistogram) => WellFormedCurve(amountHistogram, lorenzData)

NoNegativeMid(h) == \A i \in 1..Len(h) : h[i].mid >= 0

\* C4 amended: the same for histograms none of whose midpoints is negative.
C4_Amended ==
    PositiveTotals(amountHistogram) /\ NoNegativeMid(amountHistogram)
        => WellFormedCurve(amountHistogram, lorenzData)

\* C4 witness: three buckets given out of order, no negative midpoint, and a
\* curve that rises strictly somewhere between the anchors.
C4_Witness ==
    /\ Len(amountHistogram) = 3
    /\ PositiveTotals(amountHistogram)
    /\ NoNegativeMid(amountHistogram)
    /\ amountHistogram # SortByMid(amountHistogram)
    /\ lorenzData[2] # lorenzData[3]
    /\ lorenzData[3] # lorenzData[4]

ScenarioCurve(first) ==
    <<Anchor0, [p |-> Div(1, 2), L |-> first], [p |-> Div(1, 1), L |-> Div(1, 1)], Anchor1>>

\* C5 as stated: for [{mid:10,count:2},{mid:30,count:2}] the totals are 4 and
\* 80 and the points between the anchors are (0.5, 10/80) and (1, 1).
C5_Original ==
    amountHistogram = ScenarioHist =>
        /\ TotalCount(amountHistogram) = 4
        /\ TotalAmount(amountHistogram) = 80
        /\ lorenzData = ScenarioCurve(Div(10, 80))

\* C5 amended: the totals are 4 and 80 and the points between the anchors are
\* (0.5, 20/80 = 0.25) and (1, 1).
C5_Amended ==
    amountHistogram = ScenarioHist =>
        /\ TotalCount(amountHistogram) = 4
        /\ TotalAmount(amountHistogram) = 80
        /\ lorenzData = ScenarioCurve(Div(20, 80))

\* C5 witness: the example's histogram with its four-point curve.
C5_Witness ==
    /\ amountHistogram = ScenarioHist
    /\ Len(lorenzData) = 4
    /\ lorenzData[2].L = <<1, 4>>

\* C6 as stated: reordering the buckets of a histogram never changes the
\* sequence of points, buckets sharing a midpoint with different counts included.
C6_Original ==
    [][lastOp' = "reorder" => lorenzData' = lorenzData]_vars

TiesShareCount(h) ==
    \A i, j \in 1..Len(h) : h[i].mid = h[j].mid => CountOf(h[i]) = CountOf(h[j])

\* C6 amended: reordering the buckets never changes the sequence of points
\* when buckets that share a midpoint also share their count (count || 0).
C6_Amended ==
    [][lastOp' = "reorder" /\ TiesShareCount(amountHistogram)
          => lorenzData' = lorenzData]_vars

\* C6 witness: a reordered histogram, now out of order, with two buckets of
\* one midpoint and one count and a third of another midpoint.
C6_Witness ==
    /\ lastOp = "reorder"
    /\ Len(amountHistogram) = 3
    /\ TiesShareCount(amountHistogram)
    /\ amountHistogram # SortByMid(amountHistogram)
    /\ Cardinality({amountHistogram[i].mid : i \in 1..3}) = 2
    /\ TotalCount(amountHistogram) > 0

OnUploadRan == lastOp' \in {"onUpload:return", "onUpload:request"}

\* C7: onUpload with no file selected changes nothing (no upload request, no
\* refresh, no state), and every request to /ingest/csv carries a selected file.
C7_NoFileNoRequest ==
    /\ [][OnUploadRan /\ file = NoFile =>
            /\ lastOp' = "onUpload:return"
            /\ UNCHANGED <<uploads, addTxs, refreshes, datasets, file, newTx>>
            /\ UNCHANGED viewVars]_vars
    /\ [](\A i \in 1..Len(uploads) : uploads[i] # NoFile)

\* C7 witness: onUpload has just returned on a mounted view with no file
\* selected; only the mount's refresh exists and no upload is in flight.
C7_Witness ==
    /\ view = "mounted"
    /\ lastOp = "onUpload:return"
    /\ file = NoFile
    /\ uploads = <<>>
    /\ Len(refreshes) = 1

\* C8: upload and add-transaction start no refresh when they issue the write,
\* exactly one when the write resolves, and none when it rejects; a rejected
\* write leaves the selected file, the draft and the datasets as they were.
C8_WriteThenRefresh ==
    [][/\ lastOp' \in {"onUpload:request", "onAddTx:request"} =>
            refreshes' = refreshes /\ datasets' = datasets
       /\ lastOp' \in {"onUpload:resolved", "onAddTx:resolved"} =>
            /\ Len(refreshes') = Len(refreshes) + 1
            /\ SubSeq(refreshes', 1, Len(refreshes)) = refreshes
       /\ lastOp' \in {"onUpload:rejected", "onAddTx:rejected"} =>
            /\ refreshes' = refreshes
            /\ UNCHANGED <<file, newTx, datasets>>
            /\ UNCHANGED viewVars]_vars

\* C8 witness: an upload resolved (file cleared, second refresh started), then
\* an add-transaction was rejected with the filled draft kept.
C8_Witness ==
    /\ lastOp = "onAddTx:rejected"
    /\ newTx = "filled"
    /\ file = NoFile
    /\ Len(refreshes) = 2
    /\ uploads = <<>>
    /\ addTxs = <<>>

\* C9: once polling has been armed the socket is gone (never constructed,
\* failed or closed) and stays so, and every refresh started from then on is
\* started by the interval or by a resolved write, never by a push message.
C9_PushXorPolling ==
    /\ [](pollRef # 0 => ws \in {"none", "failed", "closed"})
    /\ [][pollRef # 0 =>
            /\ ws' # "open"
            /\ Len(refreshes') > Len(refreshes) =>
                  lastOp' \in {"interval", "onUpload:resolved", "onAddTx:resolved"}]_vars

\* C9 witness: a view that was Live (a push message refreshed it), fell back to
\* polling, and whose interval has fired.
C9_Witness ==
    /\ view = "mounted"
    /\ ws = "closed"
    /\ timers # {}
    /\ lastOp = "interval"
    /\ Len(refreshes) = 3

\* C10: an empty amount histogram yields an empty curve, without anchors.
C10_EmptyIsEmpty ==
    Len(amountHistogram) = 0 => lorenzData = <<>>

\* C10 witness: the server returned an empty histogram and it was rendered.
C10_Witness ==
    /\ lastOp = "setAmountHistogram"
    /\ amountHistogram = <<>>
    /\ Len(lorenzData) = 0

\* C11: in every state the nine datasets are one snapshot: all nine still
\* hold their initial value, or all nine hold the data of one and the same
\* refresh cycle, a cycle all of whose requests resolved.
C11_OneSnapshot ==
    \E c \in 0..Len(refreshes) :
       /\ \A d \in Requests : datasets[d] = c
       /\ c # 0 => refreshes[c].status = "done"

\* C11 witness: two cycles overlap; the second has resolved and written its
\* snapshot while the first still awaits some, but not all, of its responses.
C11_Witness ==
    /\ Len(refreshes) = 2
    /\ refreshes[1].status = "pending"
    /\ Cardinality(refreshes[1].pending) \in 1..8
    /\ refreshes[2].status = "done"
    /\ \A d \in Requests : datasets[d] = 2

\* C12: once two or more refresh cycles have all resolved, the datasets are
\* those of the cycle that was started last.
C12_NoStaleOverwrite ==
    (/\ Len(refreshes) >= 2
     /\ \A c \in 1..Len(refreshes) : refreshes[c].status = "done")
        => \A d \in Requests : datasets[d] = Len(refreshes)

====
